---- MODULE Spec2Model ----
(***************************************************************************)
(* Model of the dcrd node supervisor of package dcrdtest: node.start,      *)
(* node.stop and node.shutdown, the three goroutines start spawns (stderr  *)
(* drain, stdout drain, IPC reader), the child process and the two IPC     *)
(* pipe pairs of the node's configuration.                                 *)
(*                                                                         *)
(* Naming follows the source: config.pipeTX is the pipe dcrd transmits on  *)
(* (the harness reads bound-address events from pipeTX.r); config.pipeRX   *)
(* is the pipe dcrd receives on (closing it asks dcrd to shut down).       *)
(***************************************************************************)
EXTENDS Integers, Sequences, FiniteSets, TLC

\* ------------------------------------------------------------------ bounds
\* How many times the caller invokes start on the one node.
MaxStarts == 2
\* How many IPC messages one child process writes to pipeTX.
MaxEvents == 3

\* ------------------------------------------------------------- data values
\* Addresses are strings, modelled as sequences of characters.
Empty == <<>>
Addr1 == <<"h", ":", "1">>
Addr2 == <<"h", ":", "2">>
\* The address strings a child may put in a bound-address event: the address
\* its P2P listener bound, the address its RPC listener bound, or nothing.
P2PAddrs == {Empty, Addr1}
RPCAddrs == {Empty, Addr2}

\* host:port form: a colon with a non-empty host before and a port after it.
IsHostPort(s) == \E i \in 1..Len(s) : s[i] = ":" /\ i > 1 /\ i < Len(s)

\* The messages a child may write to pipeTX: the two bound-address events,
\* an event of another kind, and bytes that do not decode.
Messages ==
    [kind : {"p2p"}, addr : P2PAddrs]
        \cup [kind : {"rpc"}, addr : RPCAddrs]
        \cup {[kind |-> "other", addr |-> Empty],
              [kind |-> "garbage", addr |-> Empty]}

Tasks == {"stderr", "stdout"}

\* The platforms of runtime.GOOS that stop tells apart (line 359).
Platforms == {"linux", "windows"}

\* n.cmd: nil, or the exec.Cmd of a launched process.
NoCmd == [set |-> FALSE, Process |-> FALSE]
LaunchedCmd == [set |-> TRUE, Process |-> TRUE]

NoRet == [call |-> "none", err |-> "none", path |-> "none"]

VARIABLES
    pc,             \* where the caller's goroutine is ("idle": between calls)
    call,           \* the call in progress or last made: start, stop, shutdown
    ret,            \* what the last completed call returned, and by which path
    starts,         \* number of start calls made so far
    cmd,            \* n.cmd
    nP2pAddr,       \* n.p2pAddr
    nRpcAddr,       \* n.rpcAddr
    wg,             \* n.wg counter
    running,        \* channel running is closed
    gotSubsysAddrs, \* channel gotSubsysAddrs is closed
    p2pAddr,        \* start's local p2pAddr
    rpcAddr,        \* start's local rpcAddr
    ctxDone,        \* ctx.Done() is closed
    taskPc,         \* stderr / stdout goroutine: none, wait, read, done
    ipcPc,          \* IPC goroutine: none, read, drain, done
    launch,         \* outcome of cmd.Start of the current start: none, ok, failed
    child,          \* the OS process: none, live, exited
    emitted,        \* number of messages the current child has written
    txBuf,          \* unread messages in pipeTX
    pipeTX,         \* config.pipeTX: [open, closes]
    pipeRX,         \* config.pipeRX: [open, closes]
    signals,        \* signals sent to the child so far
    procWaits,      \* cmd.Wait calls so far
    wgWaits,        \* n.wg.Wait calls so far
    stopLog,        \* failures logged by the stop in progress / last run
    seen,           \* addresses the IPC goroutine decoded, by event kind
    sent,           \* non-empty addresses the current child wrote, by kind
    everOk,         \* some start call on this node has returned nil
    goos,           \* runtime.GOOS of the build
    stopSteps,      \* what the stop in progress / last run did, in order
    ipcErr,         \* why the IPC goroutine's read on pipeTX.r failed
    fires           \* close(gotSubsysAddrs) calls made in this start

vars == <<pc, call, ret, starts, cmd, nP2pAddr, nRpcAddr, wg, running,
          gotSubsysAddrs, p2pAddr, rpcAddr, ctxDone, taskPc,
          ipcPc, launch, child, emitted, txBuf, pipeTX, pipeRX, signals,
          procWaits, wgWaits, stopLog, seen, sent, everOk, goos,
          stopSteps, ipcErr, fires>>

nodeVars == <<cmd, nP2pAddr, nRpcAddr>>
chanVars == <<running, gotSubsysAddrs>>
localVars == <<p2pAddr, rpcAddr>>
ctxVars == <<ctxDone>>
childVars == <<launch, child, emitted, sent>>
pipeVars == <<txBuf, pipeTX, pipeRX>>
histVars == <<signals, procWaits, wgWaits, stopLog, seen, everOk,
              stopSteps, ipcErr, fires>>
callVars == <<pc, call, ret, starts>>

\* -------------------------------------------------------------- IPC pipes
\* Mutant: close leaves the ends of the pair open.
PipeClose_StaysOpen(p) == [open |-> p.open, closes |-> p.closes + 1]

\* ipcPipePair.close: releases the ends the pair owns.
PipeClose(p) == [open |-> FALSE, closes |-> p.closes + 1]

\* Number of goroutines spawned by start that are still alive.
LiveTasks ==
    Cardinality({t \in Tasks : taskPc[t] \in {"wait", "read"}})
        + (IF ipcPc \in {"read", "drain"} THEN 1 ELSE 0)

Init ==
    /\ pc = "idle"
    /\ call = "none"
    /\ ret = NoRet
    /\ starts = 0
    /\ cmd = NoCmd
    /\ nP2pAddr = Empty
    /\ nRpcAddr = Empty
    /\ wg = 0
    /\ running = FALSE
    /\ gotSubsysAddrs = FALSE
    /\ p2pAddr = Empty
    /\ rpcAddr = Empty
    /\ ctxDone = FALSE
    /\ taskPc = [t \in Tasks |-> "none"]
    /\ ipcPc = "none"
    /\ launch = "none"
    /\ child = "none"
    /\ emitted = 0
    /\ txBuf = <<>>
    /\ pipeTX = [open |-> TRUE, closes |-> 0]
    /\ pipeRX = [open |-> TRUE, closes |-> 0]
    /\ signals = 0
    /\ procWaits = 0
    /\ wgWaits = 0
    /\ stopLog = {}
    /\ seen = [p2p |-> {}, rpc |-> {}]
    /\ sent = [p2p |-> {}, rpc |-> {}]
    /\ everOk = FALSE
    /\ goos \in Platforms
    /\ stopSteps = <<>>
    /\ ipcErr = "none"
    /\ fires = 0

\* ------------------------------------------------------------ node.start
\* A new start call: fresh channels, locals and context (lines 212-217).
NewStart ==
    /\ starts' = starts + 1
    /\ call' = "start"
    /\ running' = FALSE
    /\ gotSubsysAddrs' = FALSE
    /\ p2pAddr' = Empty
    /\ rpcAddr' = Empty
    /\ ctxDone' = FALSE
    /\ launch' = "none"
    /\ child' = "none"
    /\ emitted' = 0
    /\ sent' = [p2p |-> {}, rpc |-> {}]
    /\ seen' = [p2p |-> {}, rpc |-> {}]
    /\ stopLog' = {}
    /\ stopSteps' = <<>>
    /\ ipcErr' = "none"
    /\ fires' = 0

\* The caller invokes start on a node that is not running and whose earlier
\* goroutines have ended.  cmd.StderrPipe() either fails, and start returns
\* its error, or the stderr goroutine is spawned (lines 219-245).
StartCall(pipeOk) ==
    /\ pc = "idle"
    /\ starts < MaxStarts
    /\ cmd = NoCmd
    /\ LiveTasks = 0
    /\ NewStart
    /\ ipcPc' = "none"
    /\ IF pipeOk
          THEN /\ wg' = wg + 1
               /\ taskPc' = [stderr |-> "wait", stdout |-> "none"]
               /\ pc' = "stdoutPipe"
               /\ ret' = NoRet
          ELSE /\ wg' = wg
               /\ taskPc' = [t \in Tasks |-> "none"]
               /\ pc' = "idle"
               /\ ret' = [call |-> "start", err |-> "pipe", path |-> "stderrPipe"]
    /\ UNCHANGED <<goos, nodeVars, pipeVars, signals, procWaits, wgWaits, everOk>>

\* cmd.StdoutPipe() either fails, and start returns its error, or the stdout
\* goroutine and the IPC goroutine are spawned (lines 247-306).  The IPC
\* goroutine is not added to n.wg.
StartStdoutPipe(pipeOk) ==
    /\ pc = "stdoutPipe"
    /\ IF pipeOk
          THEN /\ wg' = wg + 1
               /\ taskPc' = [taskPc EXCEPT !["stdout"] = "wait"]
               /\ ipcPc' = "read"
               /\ pc' = "cmdStart"
               /\ ret' = ret
          ELSE /\ pc' = "idle"
               /\ ret' = [call |-> "start", err |-> "pipe", path |-> "stdoutPipe"]
               /\ UNCHANGED <<wg, taskPc, ipcPc>>
    /\ UNCHANGED <<goos, call, starts, nodeVars, chanVars, localVars, ctxVars,
                   childVars, pipeVars, histVars>>

\* err = cmd.Start(); close(running); on success n.cmd = cmd (lines 308-319).
CmdStart(ok) ==
    /\ pc = "cmdStart"
    /\ running' = TRUE
    /\ IF ok
          THEN /\ launch' = "ok"
               /\ child' = "live"
               /\ cmd' = LaunchedCmd
               /\ pc' = "select"
          ELSE /\ launch' = "failed"
               /\ child' = child
               /\ cmd' = cmd
               /\ pc' = "execWait"
    /\ UNCHANGED <<goos, call, ret, starts, nP2pAddr, nRpcAddr, wg, gotSubsysAddrs,
                   localVars, ctxVars, taskPc, ipcPc, emitted, sent, pipeVars,
                   histVars>>

\* Mutant: n.wg.Wait() does not wait.
WgDone_NoBarrier(n) == TRUE

\* The barrier of n.wg.Wait() (lines 314 and 371).
WgDone(n) == n = 0

\* Failed exec: n.wg.Wait(), close both pipe pairs, return the wrapped
\* errDcrdCmdExec (lines 311-318).
ExecFailWait ==
    /\ pc = "execWait"
    /\ WgDone(wg)
    /\ wgWaits' = wgWaits + 1
    /\ pipeTX' = PipeClose(pipeTX)
    /\ pipeRX' = PipeClose(pipeRX)
    /\ pc' = "idle"
    /\ ret' = [call |-> "start", err |-> "exec", path |-> "exec"]
    /\ txBuf' = <<>>
    /\ UNCHANGED <<goos, call, starts, nodeVars, wg, chanVars, localVars, ctxVars,
                   taskPc, ipcPc, childVars, signals, procWaits,
                   stopLog, seen, everOk, stopSteps, ipcErr, fires>>

\* Mutant: start copies the addresses without waiting for gotSubsysAddrs.
StartSelectReady_NoWait ==
    /\ pc = "select"
    /\ nP2pAddr' = p2pAddr
    /\ nRpcAddr' = rpcAddr
    /\ everOk' = TRUE
    /\ pc' = "idle"
    /\ ret' = [call |-> "start", err |-> "nil", path |-> "ready"]
    /\ UNCHANGED <<goos, call, starts, cmd, wg, chanVars, localVars, ctxVars,
                   taskPc, ipcPc, childVars, pipeVars, signals, procWaits,
                   wgWaits, stopLog, seen, stopSteps, ipcErr, fires>>

\* case <-gotSubsysAddrs: record both addresses and return nil
\* (lines 329-334).
StartSelectReady ==
    /\ pc = "select"
    /\ gotSubsysAddrs
    /\ nP2pAddr' = p2pAddr
    /\ nRpcAddr' = rpcAddr
    /\ everOk' = TRUE
    /\ pc' = "idle"
    /\ ret' = [call |-> "start", err |-> "nil", path |-> "ready"]
    /\ UNCHANGED <<goos, call, starts, cmd, wg, chanVars, localVars, ctxVars,
                   taskPc, ipcPc, childVars, pipeVars, signals, procWaits,
                   wgWaits, stopLog, seen, stopSteps, ipcErr, fires>>

\* Mutant: start also gives up once the IPC goroutine has ended.
StartSelectCtx_OnIPCEnd ==
    /\ pc = "select"
    /\ ctxDone \/ ipcPc = "done"
    /\ pc' = "stop"
    /\ UNCHANGED <<goos, call, ret, starts, nodeVars, wg, chanVars, localVars,
                   ctxVars, taskPc, ipcPc, childVars, pipeVars, histVars>>

\* case <-ctx.Done(): run n.stop() (line 323-324).
StartSelectCtx ==
    /\ pc = "select"
    /\ ctxDone
    /\ pc' = "stop"
    /\ UNCHANGED <<goos, call, ret, starts, nodeVars, wg, chanVars, localVars,
                   ctxVars, taskPc, ipcPc, childVars, pipeVars, histVars>>

\* ------------------------------------------------- node.stop, node.shutdown
\* Mutant: the guard tests n.cmd.Process alone.
StopIsNoop_ProcessOnly(c) == c.set /\ ~c.Process

\* The guard of stop: n.cmd == nil || n.cmd.Process == nil (line 344).
StopIsNoop(c) == ~c.set \/ ~c.Process

\* Mutant: stop returns the error it logged.
StopResult_LoggedErr(log) == IF log # {} THEN "err" ELSE "nil"

\* What stop returns, whatever it logged on the way (lines 347 and 387).
StopResult(log) == "nil"

\* shutdown returns stop's error when it is not nil, else nil (lines 396-400).
ShutdownResult(stopErr) == IF stopErr # "nil" THEN stopErr ELSE "nil"

\* Mutant: start returns what stop returned.
StartCtxResult_CloseErr(closeErr) == closeErr

\* What start returns once the stop it ran on ctx.Done() is back (line 328).
StartCtxResult(closeErr) == "ctx"

\* Mutant: stop leaves n.cmd as it was.
ClearedCmd_Kept(c) == c

\* n.cmd after stop has run to its end (line 386).
ClearedCmd(c) == NoCmd

\* The return of stop to whoever called it: start's cancellation branch, the
\* caller of stop, or shutdown.
StopReturns(path) ==
    /\ pc' = "idle"
    /\ ret' = CASE call = "start" ->
                     [call |-> "start", err |-> StartCtxResult(StopResult(stopLog')),
                      path |-> "ctx"]
                [] call = "shutdown" ->
                     [call |-> "shutdown",
                      err |-> ShutdownResult(StopResult(stopLog')), path |-> path]
                [] OTHER ->
                     [call |-> "stop", err |-> StopResult(stopLog'), path |-> path]

\* The caller invokes stop or shutdown between calls.
StopCall(kind) ==
    /\ pc = "idle"
    /\ kind \in {"stop", "shutdown"}
    /\ call' = kind
    /\ ret' = NoRet
    /\ pc' = "stop"
    /\ stopLog' = {}
    /\ stopSteps' = <<>>
    /\ UNCHANGED <<goos, starts, nodeVars, wg, chanVars, localVars, ctxVars, taskPc,
                   ipcPc, childVars, pipeVars, signals, procWaits, wgWaits,
                   seen, everOk, ipcErr, fires>>

\* stop on a node with no process: return nil at once (lines 344-348).
StopNoop ==
    /\ pc = "stop"
    /\ StopIsNoop(cmd)
    /\ stopLog' = stopLog
    /\ StopReturns("noop")
    /\ UNCHANGED <<goos, call, starts, nodeVars, wg, chanVars, localVars, ctxVars,
                   taskPc, ipcPc, childVars, pipeVars, signals, procWaits,
                   wgWaits, seen, everOk, stopSteps, ipcErr, fires>>

\* Mutant: the process is signalled whether or not the close failed.
SendsSignal_Always(closeErr) == TRUE

\* if err != nil after closing pipeRX: only then is the process signalled
\* (line 352).
SendsSignal(closeErr) == closeErr

\* The signal sent: os.Kill where runtime.GOOS is "windows", which has no
\* interrupt, os.Interrupt elsewhere (lines 359-363).
SignalFor(os) == IF os = "windows" THEN "kill" ELSE "interrupt"

\* Close pipeRX; when that fails, signal the process, and log a failing
\* signal (lines 350-367).
StopClosePipeRX(closeErr, sigErr) ==
    /\ pc = "stop"
    /\ ~StopIsNoop(cmd)
    /\ pipeRX' = PipeClose(pipeRX)
    /\ stopLog' = stopLog \cup (IF closeErr THEN {"closeRX"} ELSE {})
                           \cup (IF SendsSignal(closeErr) /\ sigErr
                                    THEN {"signal"} ELSE {})
    /\ IF SendsSignal(closeErr)
          THEN /\ signals' = signals + 1
               /\ stopSteps' = <<"closeRX", SignalFor(goos)>>
          ELSE /\ signals' = signals
               /\ stopSteps' = <<"closeRX">>
    /\ pc' = "stopWg"
    /\ UNCHANGED <<goos, call, ret, starts, nodeVars, wg, chanVars, localVars,
                   ctxVars, taskPc, ipcPc, childVars, txBuf, pipeTX,
                   procWaits, wgWaits, seen, everOk, ipcErr, fires>>

\* n.wg.Wait() (lines 369-371).
StopWgWait ==
    /\ pc = "stopWg"
    /\ WgDone(wg)
    /\ wgWaits' = wgWaits + 1
    /\ stopSteps' = Append(stopSteps, "wgWait")
    /\ pc' = "stopCmdWait"
    /\ UNCHANGED <<goos, call, ret, starts, nodeVars, wg, chanVars, localVars,
                   ctxVars, taskPc, ipcPc, childVars, pipeVars, signals,
                   procWaits, stopLog, seen, everOk, ipcErr, fires>>

\* Mutant: the wait returns while the process is still running.
ProcessExited_NoWait(c) == TRUE

\* n.cmd.Wait() returns once the process has exited (line 375).
ProcessExited(c) == c # "live"

\* n.cmd.Wait(): blocks until the process has exited; its error is logged
\* (lines 373-378).
StopCmdWait(waitErr) ==
    /\ pc = "stopCmdWait"
    /\ ProcessExited(child)
    /\ procWaits' = procWaits + 1
    /\ stopSteps' = Append(stopSteps, "cmdWait")
    /\ stopLog' = stopLog \cup (IF waitErr THEN {"wait"} ELSE {})
    /\ pc' = "stopCloseTX"
    /\ UNCHANGED <<goos, call, ret, starts, nodeVars, wg, chanVars, localVars,
                   ctxVars, taskPc, ipcPc, childVars, pipeVars, signals,
                   wgWaits, seen, everOk, ipcErr, fires>>

\* Close pipeTX, logging a failure; n.cmd = nil; return nil (lines 380-387).
\* With its read end closed the pipe drops what was written and not read.
StopClosePipeTX(closeErr) ==
    /\ pc = "stopCloseTX"
    /\ pipeTX' = PipeClose(pipeTX)
    /\ stopLog' = stopLog \cup (IF closeErr THEN {"closeTX"} ELSE {})
    /\ cmd' = ClearedCmd(cmd)
    /\ stopSteps' = stopSteps \o <<"closeTX", "clearCmd">>
    /\ StopReturns("full")
    /\ txBuf' = <<>>
    /\ UNCHANGED <<goos, call, starts, nP2pAddr, nRpcAddr, wg, chanVars, localVars,
                   ctxVars, taskPc, ipcPc, childVars, pipeRX, signals,
                   procWaits, wgWaits, seen, everOk, ipcErr, fires>>

\* ------------------------------------------- stderr and stdout goroutines
\* Mutant: the goroutine enters its read loop without waiting for running.
TaskWaitRunning_NoGate(t) ==
    /\ taskPc[t] = "wait"
    /\ taskPc' = [taskPc EXCEPT ![t] = "read"]
    /\ UNCHANGED <<goos, callVars, nodeVars, wg, chanVars, localVars, ctxVars,
                   ipcPc, childVars, pipeVars, histVars>>

\* select: case <-running (lines 227-228, 255-256).
TaskWaitRunning(t) ==
    /\ taskPc[t] = "wait"
    /\ running
    /\ taskPc' = [taskPc EXCEPT ![t] = "read"]
    /\ UNCHANGED <<goos, callVars, nodeVars, wg, chanVars, localVars, ctxVars,
                   ipcPc, childVars, pipeVars, histVars>>

\* select: case <-ctx.Done(): return, running the deferred n.wg.Done()
\* (lines 229-230, 257-258).
TaskWaitCtx(t) ==
    /\ taskPc[t] = "wait"
    /\ ctxDone
    /\ taskPc' = [taskPc EXCEPT ![t] = "done"]
    /\ wg' = wg - 1
    /\ UNCHANGED <<goos, callVars, nodeVars, chanVars, localVars, ctxVars, ipcPc,
                   childVars, pipeVars, histVars>>

\* The stream of a process that exited reports EOF, and the stream of a
\* command that failed to start is closed: ReadBytes returns an error.
StreamEnded == launch = "failed" \/ child = "exited"

\* The read loop ends on EOF or a read error (lines 234-244, 262-272).
TaskReadEnd(t) ==
    /\ taskPc[t] = "read"
    /\ StreamEnded
    /\ taskPc' = [taskPc EXCEPT ![t] = "done"]
    /\ wg' = wg - 1
    /\ UNCHANGED <<goos, callVars, nodeVars, chanVars, localVars, ctxVars, ipcPc,
                   childVars, pipeVars, histVars>>

\* ----------------------------------------------------------- IPC goroutine
\* Mutant: the P2P case takes the address of either bound-address event.
NewP2pAddr_AnyBound(msg, old) ==
    IF msg.kind \in {"p2p", "rpc"} THEN msg.addr ELSE old

\* The switch on the decoded message: a bound-address event sets the local
\* of its kind to string(msg), any other event sets nothing (lines 286-293).
NewP2pAddr(msg, old) == IF msg.kind = "p2p" THEN msg.addr ELSE old
NewRpcAddr(msg, old) == IF msg.kind = "rpc" THEN msg.addr ELSE old

\* Mutant: ready as soon as either address is known.
BothKnown_Either(p, r) == p # Empty \/ r # Empty

\* if p2pAddr != "" && rpcAddr != "" (line 294).
BothKnown(p, r) == p # Empty /\ r # Empty

\* nextIPCMessage on pipeTX.r fails: the read end was closed, the bytes do
\* not decode, or the stream ended with the child gone.
ReadFails ==
    \/ ~pipeTX.open
    \/ txBuf # <<>> /\ Head(txBuf).kind = "garbage"
    \/ txBuf = <<>> /\ child = "exited"

\* Which failure nextIPCMessage reports on pipeTX.r.
ReadErrKind ==
    CASE ~pipeTX.open -> "closed"
      [] pipeTX.open /\ txBuf # <<>> /\ Head(txBuf).kind = "garbage" -> "decode"
      [] OTHER -> "eof"

\* Mutant: after a message that does not decode the loop reads on.
IPCErrPc_Continue(why) == IF why = "decode" THEN "read" ELSE "done"

\* if err != nil { n.logf(...); return }: whatever the error, the goroutine
\* ends (lines 281-285).
IPCErrPc(why) == "done"

\* A read error ends the goroutine (lines 281-285).
IPCReadError ==
    /\ ipcPc = "read"
    /\ ReadFails
    /\ ipcPc' = IPCErrPc(ReadErrKind)
    /\ ipcErr' = ReadErrKind
    /\ txBuf' = IF pipeTX.open /\ txBuf # <<>> THEN Tail(txBuf) ELSE txBuf
    /\ UNCHANGED <<goos, callVars, nodeVars, wg, chanVars, localVars, ctxVars,
                   taskPc, childVars, pipeTX, pipeRX, signals, procWaits,
                   wgWaits, stopLog, seen, everOk, stopSteps, fires>>

\* Mutant: the loop has no break after close(gotSubsysAddrs).
IPCNextPc_NoBreak(known) == "read"

\* After a decoded message: break out of the loop into the drain once both
\* addresses are known, read the next message otherwise (lines 294-298).
IPCNextPc(known) == IF known THEN "drain" ELSE "read"

\* One message decoded: update the locals; once both are known close
\* gotSubsysAddrs and leave the loop (lines 280-298).
IPCReadMsg ==
    /\ ipcPc = "read"
    /\ pipeTX.open
    /\ txBuf # <<>>
    /\ Head(txBuf).kind # "garbage"
    /\ LET msg == Head(txBuf)
           p == NewP2pAddr(msg, p2pAddr)
           r == NewRpcAddr(msg, rpcAddr)
       IN /\ txBuf' = Tail(txBuf)
          /\ p2pAddr' = p
          /\ rpcAddr' = r
          /\ seen' = IF msg.kind \in {"p2p", "rpc"}
                        THEN [seen EXCEPT ![msg.kind] = @ \cup {msg.addr}]
                        ELSE seen
          /\ IF BothKnown(p, r)
                THEN /\ gotSubsysAddrs' = TRUE
                     /\ fires' = fires + 1
                ELSE /\ gotSubsysAddrs' = gotSubsysAddrs
                     /\ fires' = fires
          /\ ipcPc' = IPCNextPc(BothKnown(p, r))
    /\ UNCHANGED <<goos, callVars, nodeVars, wg, running, ctxVars, taskPc,
                   childVars, pipeTX, pipeRX, signals, procWaits, wgWaits,
                   stopLog, everOk, stopSteps, ipcErr>>

\* The drain loop reads pipeRX.r, on which nothing is ever written: it ends
\* when the read fails, that is once pipeRX is closed (lines 300-305).
IPCDrainEnd ==
    /\ ipcPc = "drain"
    /\ ~pipeRX.open
    /\ ipcPc' = "done"
    /\ UNCHANGED <<goos, callVars, nodeVars, wg, chanVars, localVars, ctxVars,
                   taskPc, childVars, pipeVars, histVars>>

\* ---------------------------------------------------------- the environment
\* The child writes one more message to pipeTX.
ChildEmit(m) ==
    /\ child = "live"
    /\ pipeTX.open
    /\ emitted < MaxEvents
    /\ emitted' = emitted + 1
    /\ txBuf' = Append(txBuf, m)
    /\ sent' = IF m.kind \in {"p2p", "rpc"} /\ m.addr # Empty
                  THEN [sent EXCEPT ![m.kind] = @ \cup {m.addr}]
                  ELSE sent
    /\ UNCHANGED <<goos, callVars, nodeVars, wg, chanVars, localVars, ctxVars,
                   taskPc, ipcPc, launch, child, pipeTX, pipeRX, histVars>>

\* The child process exits: on its own, or because pipeRX was closed or it
\* was signalled.
ChildExit ==
    /\ child = "live"
    /\ child' = "exited"
    /\ UNCHANGED <<goos, callVars, nodeVars, wg, chanVars, localVars, ctxVars,
                   taskPc, ipcPc, launch, emitted, sent, pipeVars, histVars>>

\* The context of the latest start call is cancelled or its deadline expires.
CtxDone ==
    /\ starts > 0
    /\ ~ctxDone
    /\ ctxDone' = TRUE
    /\ UNCHANGED <<goos, callVars, nodeVars, wg, chanVars, localVars,
                   taskPc, ipcPc, childVars, pipeVars, histVars>>

\* ------------------------------------------------------- the specification
\* The steps of the goroutines, of calls in progress, and the stop calls.
Steps ==
    \/ \E ok \in BOOLEAN : StartStdoutPipe(ok)
    \/ \E ok \in BOOLEAN : CmdStart(ok)
    \/ ExecFailWait
    \/ StartSelectReady
    \/ StartSelectCtx
    \/ \E k \in {"stop", "shutdown"} : StopCall(k)
    \/ StopNoop
    \/ \E ce \in BOOLEAN, se \in BOOLEAN : StopClosePipeRX(ce, se)
    \/ StopWgWait
    \/ \E we \in BOOLEAN : StopCmdWait(we)
    \/ \E ce \in BOOLEAN : StopClosePipeTX(ce)
    \/ \E t \in Tasks : TaskWaitRunning(t)
    \/ \E t \in Tasks : TaskWaitCtx(t)
    \/ \E t \in Tasks : TaskReadEnd(t)
    \/ IPCReadError
    \/ IPCReadMsg
    \/ IPCDrainEnd
    \/ ChildExit
    \/ CtxDone

Next ==
    \/ \E ok \in BOOLEAN : StartCall(ok)
    \/ \E m \in Messages : ChildEmit(m)
    \/ Steps

Spec == Init /\ [][Next]_vars

\* The scheduling the runtime guarantees: a goroutine that can take a step
\* eventually takes it.  The caller is free never to call.
Scheduling ==
    /\ WF_vars(\E ok \in BOOLEAN : StartStdoutPipe(ok))
    /\ WF_vars(\E ok \in BOOLEAN : CmdStart(ok))
    /\ WF_vars(ExecFailWait)
    /\ WF_vars(StartSelectReady)
    /\ WF_vars(StartSelectCtx)
    /\ WF_vars(StopNoop)
    /\ WF_vars(\E ce \in BOOLEAN, se \in BOOLEAN : StopClosePipeRX(ce, se))
    /\ WF_vars(StopWgWait)
    /\ WF_vars(\E we \in BOOLEAN : StopCmdWait(we))
    /\ WF_vars(\E ce \in BOOLEAN : StopClosePipeTX(ce))
    /\ \A t \in Tasks : WF_vars(TaskWaitRunning(t))
    /\ \A t \in Tasks : WF_vars(TaskWaitCtx(t))
    /\ \A t \in Tasks : WF_vars(TaskReadEnd(t))
    /\ WF_vars(IPCReadError)
    /\ WF_vars(IPCReadMsg)
    /\ WF_vars(IPCDrainEnd)

\* Scheduling, and the context of every start call carries a deadline,
\* which eventually expires.  The child is free never to write or exit.
Fairness ==
    /\ Scheduling
    /\ WF_vars(CtxDone)

\* Bounds of the liveness check: start calls made, messages per child.
LiveStarts == 1
LiveEvents == 2

LiveNext ==
    \/ \E ok \in BOOLEAN : starts < LiveStarts /\ StartCall(ok)
    \/ \E m \in Messages : emitted < LiveEvents /\ ChildEmit(m)
    \/ Steps

LiveSpec == Init /\ [][LiveNext]_vars /\ Fairness

\* The child has been asked to exit: pipeRX is closed, or the stop in
\* progress signalled it and the signal did not fail (lines 351-367).
ChildAskedToExit ==
    \/ ~pipeRX.open
    \/ /\ Len(stopSteps) >= 2
       /\ stopSteps[2] \in {"interrupt", "kill"}
       /\ "signal" \notin stopLog

\* A child that has been asked to exit does exit.
ChildObeys == WF_vars(ChildExit /\ ChildAskedToExit)

\* Scheduling with an obedient child; the context may never be done.
StopLiveSpec == Init /\ [][LiveNext]_vars /\ Scheduling /\ ChildObeys

\* ------------------------------------------------------------------ claims
BothEmpty == nP2pAddr = Empty /\ nRpcAddr = Empty
BothNonEmpty == nP2pAddr # Empty /\ nRpcAddr # Empty
PipesClosed == ~pipeTX.open /\ ~pipeRX.open
StartReturned == pc = "idle" /\ ret.call = "start"
StopReturned == pc = "idle" /\ ret.call \in {"stop", "shutdown"}
\* The child of this start wrote both bound-address events.
SentBoth == sent.p2p # {} /\ sent.rpc # {}

\* C1: every start call that returns the context error (the child exited
\* at once, or the context was done before both addresses were known) has
\* no goroutine of that start alive when it returns.
C1_NoTaskOutlivesFailedStart ==
    (StartReturned /\ ret.err = "ctx") => LiveTasks = 0

\* The case of C2, and what a stop run to its end leaves behind.
C2_Scenario == pc = "select" /\ child = "exited" /\ ~SentBoth
C2_StopRan == cmd = NoCmd /\ PipesClosed /\ child # "live" /\ wg = 0

\* C2: a launched child that exits without having written both
\* bound-address events, under a context with a deadline: start eventually
\* returns, what it returns is the context error and never nil, and it
\* returns only with the stop sequence run to its end.
C2_FailedStartReturnsCtxErr ==
    /\ C2_Scenario ~> (StartReturned /\ ret.err = "ctx" /\ C2_StopRan)
    /\ [](StartReturned /\ launch = "ok" /\ ~SentBoth
            => ret.err = "ctx" /\ C2_StopRan)
C2_Witness ==
    StartReturned /\ ret.err = "ctx" /\ launch = "ok" /\ child = "exited"
        /\ ~SentBoth /\ sent.p2p # {}

\* C3: after a start that returned nil, both node addresses are non-empty,
\* of the form host:port, and each is an address the IPC goroutine decoded
\* from a bound-address event of its own kind.
C3_AddrsOfSuccessfulStart ==
    (StartReturned /\ ret.err = "nil") =>
        /\ BothNonEmpty
        /\ IsHostPort(nP2pAddr) /\ IsHostPort(nRpcAddr)
        /\ nP2pAddr \in seen.p2p /\ nRpcAddr \in seen.rpc
        /\ nP2pAddr \in sent.p2p /\ nRpcAddr \in sent.rpc
C3_Witness ==
    StartReturned /\ ret.err = "nil" /\ nP2pAddr = Addr1 /\ nRpcAddr = Addr2
        /\ Empty \in seen.p2p

\* C4: after start returns, on every return path, either the node runs with
\* both addresses set, or no goroutine of that start is alive and both pipe
\* pairs are closed.
C4_RunningOrCleanedUp ==
    StartReturned =>
        \/ cmd.set /\ BothNonEmpty
        \/ LiveTasks = 0 /\ PipesClosed

\* C5: a completed stop leaves n.cmd nil, and stop on a node whose n.cmd is
\* nil (stopped before, never started, exec failed) returns nil without
\* closing a pipe, signalling, or waiting on goroutines or the process.
C5_StopIdempotent ==
    /\ [](StopReturned => cmd = NoCmd)
    /\ [][(pc = "stop" /\ call # "start" /\ cmd = NoCmd) =>
            /\ UNCHANGED <<pipeTX, pipeRX, signals, procWaits, wgWaits, cmd>>
            /\ pc' # pc => (pc' = "idle" /\ ret'.err = "nil")]_vars
C5_Witness ==
    StopReturned /\ ret.path = "noop" /\ ret.err = "nil" /\ procWaits > 0
        /\ pipeTX.closes = 1 /\ pipeRX.closes = 1

\* C6 as stated: the node addresses are both empty or both non-empty, and
\* both empty whenever the node was not started or its start failed.
C6_Original ==
    /\ BothEmpty \/ BothNonEmpty
    /\ (starts = 0 \/ (StartReturned /\ ret.err # "nil")) => BothEmpty

\* C6 amended: the node addresses are both empty or both non-empty; they
\* are both empty exactly as long as no start call on the node has returned
\* nil (a later stop or failed start leaves them as they were).
C6_Amended ==
    /\ BothEmpty \/ BothNonEmpty
    /\ BothEmpty <=> ~everOk
C6_Witness ==
    StartReturned /\ ret.err # "nil" /\ everOk /\ BothNonEmpty

\* C7 as stated: between calls n.cmd is non-nil exactly while the child
\* process is live.
C7_Original == pc = "idle" => (cmd.set <=> child = "live")

\* C7 amended: between calls n.cmd is non-nil exactly from a start that
\* returned nil until the next stop: nil before launch, after a failed
\* start and after stop; a live child always has a non-nil n.cmd, but n.cmd
\* stays non-nil after the child exited on its own.
C7_Amended ==
    pc = "idle" =>
        /\ cmd.set <=> (ret.call = "start" /\ ret.err = "nil")
        /\ child = "live" => cmd.set
        /\ cmd.set => cmd.Process /\ launch = "ok"
C7_Witness == pc = "idle" /\ cmd.set /\ child = "exited"

\* C8: on a failed exec, start returns the exec error with n.cmd nil, both
\* stream goroutines done and both pipe pairs closed, and no goroutine of
\* this start alive.
C8_ExecFailureLeavesNothing ==
    (StartReturned /\ ret.path = "exec") =>
        /\ ret.err = "exec"
        /\ cmd = NoCmd
        /\ PipesClosed
        /\ LiveTasks = 0

\* C9: once a stop that found a process has returned, no goroutine of the
\* node is alive and the process has been waited for.
C9_StopJoinsAllTasks ==
    (StopReturned /\ ret.path = "full") => (LiveTasks = 0 /\ child # "live")

\* C10: stop and shutdown return nil on every path; whatever failed and was
\* logged on the way (close of pipeRX, signal, wait, close of pipeTX), stop
\* ran to its end: both pipe pairs closed, process gone, n.cmd nil.
C10_StopNeverFails ==
    /\ StopReturned => (ret.err = "nil" /\ cmd = NoCmd)
    /\ (pc = "idle" /\ stopLog # {}) =>
           (cmd = NoCmd /\ PipesClosed /\ child # "live")
C10_Witness ==
    StopReturned /\ ret.call = "shutdown"
        /\ stopLog = {"closeRX", "signal", "wait", "closeTX"}

C12_Original ==
    /\ pipeTX.closes <= 1
    /\ pipeRX.closes <= 1
    /\ pipeTX.closes <= procWaits

\* C12: each start call leads to at most one close of each pipe pair.  The
\* close is made by start itself when the exec fails (both pairs, once the
\* wait group is empty), and otherwise by the stop that ends the run:
\* pipeRX as its first step, pipeTX only once the process has been waited
\* for.  A later start/stop cycle invokes close on the same pairs again, so
\* the closes of a pair are bounded by the start calls made, not by one.
C12_ClosedOncePerStart ==
    /\ [](pipeTX.closes <= starts /\ pipeRX.closes <= starts)
    /\ [][/\ pipeRX' # pipeRX =>
                 /\ pipeRX'.closes = pipeRX.closes + 1
                 /\ \/ pc = "stop" /\ cmd.set
                    \/ pc = "execWait" /\ launch = "failed" /\ wg = 0
          /\ pipeTX' # pipeTX =>
                 /\ pipeTX'.closes = pipeTX.closes + 1
                 /\ \/ /\ pc = "stopCloseTX"
                       /\ child # "live"
                       /\ ~pipeRX.open
                       /\ stopSteps # <<>>
                       /\ stopSteps[Len(stopSteps)] = "cmdWait"
                    \/ pc = "execWait" /\ launch = "failed" /\ wg = 0]_vars
C12_Witness == starts = 2 /\ pipeTX.closes = 2 /\ pipeRX.closes = 2

\* C13: every variable has one writer.  The locals p2pAddr and rpcAddr of a
\* start call are written by the IPC goroutine alone, and never once it has
\* closed gotSubsysAddrs; start copies them into the node only after
\* gotSubsysAddrs is closed, in a step of its own; n.cmd is written by the
\* caller's steps alone.
C13_SingleWriter ==
    [][/\ (localVars' # localVars /\ starts' = starts) =>
              /\ ipcPc = "read" /\ ~gotSubsysAddrs
              /\ pc' = pc /\ taskPc' = taskPc
       /\ (nP2pAddr' # nP2pAddr \/ nRpcAddr' # nRpcAddr) =>
              /\ pc = "select" /\ pc' # pc
              /\ gotSubsysAddrs
              /\ nP2pAddr' = p2pAddr /\ nRpcAddr' = rpcAddr
              /\ ipcPc' = ipcPc /\ taskPc' = taskPc
       /\ (gotSubsysAddrs /\ starts' = starts) => localVars' = localVars
       /\ cmd' # cmd =>
              pc' # pc /\ ipcPc' = ipcPc /\ taskPc' = taskPc]_vars
C13_Witness ==
    /\ StartReturned /\ ret.err = "nil"
    /\ ipcPc = "drain"
    /\ txBuf # <<>>
    /\ Head(txBuf).kind = "p2p"
    /\ Head(txBuf).addr # p2pAddr

\* The steps of a stop that found a process, in the order of the code, with
\* the signal sent or not.
C14_Order(sig) ==
    <<"closeRX">> \o sig \o <<"wgWait", "cmdWait", "closeTX", "clearCmd">>
C14_IsPrefix(a, b) == Len(a) <= Len(b) /\ SubSeq(b, 1, Len(a)) = a

\* C14: a stop that found a process closes pipeRX first (signalling the
\* process when that close fails), then waits for the stream goroutines,
\* then waits for the process, only then closes pipeTX, and clears n.cmd
\* last: pipeTX is never closed by stop with the process not yet reaped or
\* a stream goroutine still running, and n.cmd stays set until then.
C14_StopOrder ==
    /\ \E sig \in {<<>>, <<"interrupt">>, <<"kill">>} :
           C14_IsPrefix(stopSteps, C14_Order(sig))
    /\ pc \in {"stopWg", "stopCmdWait", "stopCloseTX"} =>
           /\ cmd.set
           /\ ~pipeRX.open
           /\ "closeTX" \notin {stopSteps[i] : i \in DOMAIN stopSteps}
    /\ pc = "stopCmdWait" => wg = 0
    /\ pc = "stopCloseTX" => wg = 0 /\ child # "live"
    /\ "closeTX" \in {stopSteps[i] : i \in DOMAIN stopSteps} =>
           /\ wg = 0 /\ child # "live"
           /\ ~pipeTX.open /\ ~pipeRX.open
           /\ cmd = NoCmd
           /\ pc = "idle" /\ ret.path \in {"full", "ctx"}
C14_Witness ==
    /\ StopReturned
    /\ stopSteps = C14_Order(<<"interrupt">>)

\* C15: once it has closed gotSubsysAddrs the IPC goroutine keeps reading
\* the pipe it decoded the events from (pipeTX), so that it has ended only
\* when the stream of that pipe has: its read end closed, or the child gone
\* with nothing left to read.
C15_DrainsSamePipe ==
    (gotSubsysAddrs /\ ipcPc = "done") =>
        (~pipeTX.open \/ (child = "exited" /\ txBuf = <<>>))

\* C16 as stated: a stream goroutine is in its read loop only on the
\* streams of a child that was launched.
C16_Original == \A t \in Tasks : taskPc[t] = "read" => launch = "ok"

\* C16: a stream goroutine never enters its read loop before cmd.Start has
\* returned and running is closed; until then its only way on is the
\* ctx.Done branch, which ends it without a read.  running is closed whether
\* or not the launch succeeded: after a failed launch the goroutine does
\* enter the read loop, on a stream that is already closed, where its first
\* read fails.
C16_Amended ==
    /\ [](\A t \in Tasks : taskPc[t] = "read" =>
              /\ running
              /\ launch \in {"ok", "failed"}
              /\ launch = "failed" => StreamEnded)
    /\ [][\A t \in Tasks :
              (taskPc[t] = "wait" /\ ~running /\ taskPc'[t] # "wait"
                 /\ starts' = starts)
                  => (ctxDone /\ taskPc'[t] = "done" /\ wg' = wg - 1)]_vars
C16_Witness ==
    /\ launch = "failed"
    /\ taskPc["stdout"] = "read"
    /\ taskPc["stderr"] = "done"
    /\ ctxDone

\* C17 as stated: after a message that does not decode the IPC goroutine is
\* still reading.
C17_Original == ipcErr = "decode" => ipcPc # "done"

\* C17: any error of the read on pipeTX before both addresses are known, a
\* message that does not decode included, is logged and ends the IPC
\* goroutine: bound-address events written after it are never read, ready
\* is never fired in that start call, and the start does not return nil.
\* After ready the drain loop ends, with no error recorded, at the first
\* failing read of pipeRX.
C17_Amended ==
    /\ [](ipcErr # "none" =>
              /\ ipcPc = "done"
              /\ ~gotSubsysAddrs /\ fires = 0
              /\ StartReturned => ret.err # "nil")
    /\ [][(ipcPc = "drain" /\ ipcPc' # "drain") =>
              /\ ipcPc' = "done"
              /\ ~pipeRX.open
              /\ ipcErr' = ipcErr /\ ipcErr = "none"]_vars
C17_Witness ==
    /\ ipcErr = "decode"
    /\ pc = "select" /\ child = "live" /\ pipeTX.open
    /\ SentBoth
    /\ Len(txBuf) = 2
    /\ seen.p2p = {} /\ seen.rpc = {}

\* A stop that found a process is in progress.
C18_Stopping ==
    pc \in {"stop", "stopWg", "stopCmdWait", "stopCloseTX"} /\ cmd.set

C19_StartWaitsForReadyOrCtx ==
    /\ [][(pc = "select" /\ pc' # "select") =>
              \/ gotSubsysAddrs /\ pc' = "idle" /\ ret'.err = "nil"
              \/ ctxDone /\ pc' = "stop"]_vars
    /\ [][(pc = "select" /\ ipcPc = "done" /\ ~gotSubsysAddrs /\ ~ctxDone') =>
              (pc' = "select" /\ ~gotSubsysAddrs')]_vars
    /\ [](pc = "select" => launch = "ok" /\ cmd.set)
C19_Witness ==
    /\ pc = "select"
    /\ child = "exited"
    /\ ipcPc = "done" /\ ipcErr = "eof"
    /\ ~gotSubsysAddrs
    /\ ~ctxDone
    /\ LiveTasks = 0

\* C20: in one start call close(gotSubsysAddrs) is executed at most once,
\* by the IPC goroutine on decoding a bound-address event that carries a
\* non-empty address and leaves both locals non-empty; an event with an
\* empty address or of another kind never fires it, and the locals stay
\* non-empty from then on.
C20_ReadyFiredOnce ==
    /\ [](/\ fires <= 1
          /\ gotSubsysAddrs <=> fires = 1
          /\ gotSubsysAddrs => (p2pAddr # Empty /\ rpcAddr # Empty))
    /\ [][fires' > fires =>
              /\ ~gotSubsysAddrs /\ gotSubsysAddrs'
              /\ ipcPc = "read" /\ txBuf # <<>>
              /\ Head(txBuf).kind \in {"p2p", "rpc"}
              /\ Head(txBuf).addr # Empty
              /\ p2pAddr' # Empty /\ rpcAddr' # Empty]_vars
C20_Witness ==
    /\ fires = 1
    /\ ipcPc = "drain"
    /\ Empty \in seen.p2p
    /\ txBuf = <<>>
    /\ emitted = MaxEvents

====
